---- MODULE Spec2Model ----
(***************************************************************************)
(* A model of ini-parser (src/main.c): the linear allocator, the string    *)
(* hash table built on it, and the INI scanner/parser that fills the table.*)
(*                                                                         *)
(* Conventions                                                             *)
(*  - A character is its ASCII code; a C string is the sequence of its     *)
(*    characters without the terminating NUL.                              *)
(*  - A pointer into the arena is the offset of its first byte from        *)
(*    allocator.buffer; NULL is -1.  Pointers handed in by a caller of the *)
(*    table (opaque values) are numbers above the arena.                   *)
(*  - A size_t value v is written v when v < 2^63 and v - 2^64 otherwise   *)
(*    (its two's complement reading), so that + on the magnitudes used     *)
(*    here is exact modulo 2^64 and unsigned order is SizeGT.              *)
(***************************************************************************)
EXTENDS Integers, Sequences, FiniteSets, TLC

VARIABLES
  allocator,   \* LinearAllocator: [cap, offset] (buffer is the base of all pointers)
  mem,         \* the offsets of the arena bytes that hold a non-zero value
  regions,     \* the regions allocator_alloc returned since the last reset
  aret,        \* the last allocator call: [n, op, size, ptr]
  table,       \* SHashTable: [entries, len, cap]
  heap,        \* the C strings stored in the arena: pointer -> characters
  parser,      \* IniParser
  status,      \* how far the program got: "ok", "done", or a fatal outcome
  got,         \* the last shasht_get / shasht_set call and what it returned
  shadow,      \* for each key set so far, the value of its latest successful set
  fills        \* how many keys of the FillKey series were offered to shasht_set

vars == <<allocator, mem, regions, aret, table, heap, parser, status, got, shadow, fills>>

NULL == -1

Max(a, b) == IF a >= b THEN a ELSE b
Min(a, b) == IF a <= b THEN a ELSE b

-----------------------------------------------------------------------------
(* size_t arithmetic *)

\* unsigned a > b on the two's complement reading
SizeGT(a, b) == IF (a < 0) = (b < 0) THEN a > b ELSE a < 0

-----------------------------------------------------------------------------
(* Allocator *)

INITIAL_ALLOC_SIZE == 2048

\* sizeof on an LP64 target
SIZEOF_SHashTable == 24
SIZEOF_HTEntry == 16

allocator_init == [cap |-> INITIAL_ALLOC_SIZE, offset |-> 0]

\* (offset + (alignment - 1)) & ~(alignment - 1), alignment = 8
AlignUp(offset) == ((offset + 7) \div 8) * 8

\* The bytes [ptr, ptr + size) that lie inside a buffer of cap bytes; a size
\* of 2^63 or more (negative here) runs to the end of the buffer and beyond.
Bytes(ptr, size, cap) ==
  IF ptr = NULL THEN {}
  ELSE IF size < 0 THEN ptr .. (cap - 1)
  ELSE ptr .. (Min(ptr + size, cap) - 1)

\* allocator_alloc without the memset of the region
allocator_alloc_nozero(a, size) ==
  LET aligned_offset == AlignUp(a.offset)
      end == aligned_offset + size
  IN  IF SizeGT(end, a.cap)
      THEN [ptr |-> NULL, allocator |-> a, zero |-> {}, oob |-> FALSE]
      ELSE [ptr |-> aligned_offset,
            allocator |-> [a EXCEPT !.offset = end],
            zero |-> {},
            oob |-> size < 0]

\* allocator_alloc: ptr is the result, allocator the arena it leaves, zero the
\* buffer bytes its memset clears, oob whether the memset runs past the buffer
\* (aligned_offset + size wrapped around 2^64 and so passed the capacity check).
allocator_alloc(a, size) ==
  LET aligned_offset == AlignUp(a.offset)
      end == aligned_offset + size            \* modulo 2^64
  IN  IF SizeGT(end, a.cap)
      THEN [ptr |-> NULL, allocator |-> a, zero |-> {}, oob |-> FALSE]
      ELSE [ptr |-> aligned_offset,
            allocator |-> [a EXCEPT !.offset = end],
            zero |-> Bytes(aligned_offset, size, a.cap),
            oob |-> size < 0]

allocator_reset(a) == [a EXCEPT !.offset = 0]

-----------------------------------------------------------------------------
(* Hash table *)

MAX_TABLE_SIZE == 64

\* hash_key is computed modulo HashMod: the table only ever uses
\* hash & (cap - 1) with cap <= HashMod, and the low 16 bits of x ^ c and of
\* x * FNV_PRIME depend only on the low 16 bits of x.
HashMod == 2 ^ 16
FNV_OFFSET == 8997     \* 14695981039346656037 mod 2^16
FNV_PRIME == 435       \* 1099511628211 mod 2^16

RECURSIVE BitXor(_, _)
BitXor(a, b) ==
  IF a = 0 THEN b
  ELSE IF b = 0 THEN a
  ELSE (((a % 2) + (b % 2)) % 2) + 2 * BitXor(a \div 2, b \div 2)

RECURSIVE BitAnd(_, _)
BitAnd(a, b) ==
  IF a = 0 \/ b = 0 THEN 0
  ELSE ((a % 2) * (b % 2)) + 2 * BitAnd(a \div 2, b \div 2)

RECURSIVE hash_from(_, _, _)
hash_from(hash, key, i) ==
  IF i > Len(key) THEN hash
  ELSE hash_from((BitXor(hash, key[i]) * FNV_PRIME) % HashMod, key, i + 1)

\* FNV-1a
hash_key(key) == hash_from(FNV_OFFSET, key, 1)

EmptyEntry == [key |-> NULL, val |-> NULL]

\* strlen(c)
strlen(c) == Len(c)

\* the heap after a string is stored at ptr
Store(h, ptr, c) == [x \in DOMAIN h \cup {ptr} |-> IF x = ptr THEN c ELSE h[x]]

\* shasht_init: both allocations are checked, a NULL ends the process (exit(1));
\* the entries come zeroed out of allocator_alloc.
init_entries(r2) ==
  [status |-> IF r2.ptr = NULL THEN "exit" ELSE "ok",
   table |-> [entries |-> [i \in 0 .. MAX_TABLE_SIZE - 1 |-> EmptyEntry],
              len |-> 0, cap |-> MAX_TABLE_SIZE],
   allocator |-> r2.allocator]

init_table(r1) ==
  IF r1.ptr = NULL
  THEN [status |-> "exit",
        table |-> [entries |-> [i \in 0 .. MAX_TABLE_SIZE - 1 |-> EmptyEntry],
                   len |-> 0, cap |-> MAX_TABLE_SIZE],
        allocator |-> r1.allocator]
  ELSE init_entries(allocator_alloc(r1.allocator, MAX_TABLE_SIZE * SIZEOF_HTEntry))

shasht_init(a) == init_table(allocator_alloc(a, SIZEOF_SHashTable))

\* str_dup: a copy of c in the arena, or exit(EXIT_FAILURE)
dup_into(c, h, r) ==
  IF r.ptr = NULL
  THEN [status |-> "exit", ptr |-> NULL, allocator |-> r.allocator, heap |-> h]
  ELSE [status |-> "ok", ptr |-> r.ptr, allocator |-> r.allocator,
        heap |-> Store(h, r.ptr, c)]

str_dup(c, a, h) == dup_into(c, h, allocator_alloc(a, strlen(c) + 1))

\* index++ with the wrap around the array
NextIndex(t, index) == IF index + 1 >= t.cap THEN 0 ELSE index + 1

\* The probe loop of shasht_set: the slot where it stops (an empty slot, or the
\* slot holding key) and the number of slots it visited.
RECURSIVE set_probe(_, _, _, _, _)
set_probe(t, h, key, index, visited) ==
  IF t.entries[index].key = NULL
  THEN [index |-> index, found |-> FALSE, visited |-> visited + 1]
  ELSE IF key = h[t.entries[index].key]
  THEN [index |-> index, found |-> TRUE, visited |-> visited + 1]
  ELSE set_probe(t, h, key, NextIndex(t, index), visited + 1)

\* the insertion without the count of the new entry
set_insert_uncounted(t, index, value, d) ==
  IF d.status # "ok"
  THEN [status |-> "exit", ret |-> NULL, table |-> t,
        allocator |-> d.allocator, heap |-> d.heap]
  ELSE [status |-> "ok", ret |-> d.ptr,
        table |-> [t EXCEPT !.entries[index] = [key |-> d.ptr, val |-> value]],
        allocator |-> d.allocator, heap |-> d.heap]

\* main.c:155-162: insert a new key value pair at the empty slot
set_insert(t, index, value, d) ==
  IF d.status # "ok"
  THEN [status |-> "exit", ret |-> NULL, table |-> t,
        allocator |-> d.allocator, heap |-> d.heap]
  ELSE [status |-> "ok", ret |-> d.ptr,
        table |-> [t EXCEPT !.len = t.len + 1,
                            !.entries[index] = [key |-> d.ptr, val |-> value]],
        allocator |-> d.allocator, heap |-> d.heap]

\* main.c:141-162: what follows the probe loop
set_slot(t, key, value, a, h, p) ==
  IF p.found
  THEN [status |-> "ok", ret |-> t.entries[p.index].key,
        table |-> [t EXCEPT !.entries[p.index].val = value],
        allocator |-> a, heap |-> h]
  ELSE set_insert(t, p.index, value, str_dup(key, a, h))

\* shasht_set with the load check one key early (len >= cap / 2 - 1)
shasht_set_early(t, key, value, a, h) ==
  IF value = NULL
  THEN [status |-> "abort", ret |-> NULL, table |-> t, allocator |-> a, heap |-> h]
  ELSE IF t.len >= t.cap \div 2 - 1
  THEN [status |-> "exit", ret |-> NULL, table |-> t, allocator |-> a, heap |-> h]
  ELSE set_slot(t, key, value, a, h,
                set_probe(t, h, key, BitAnd(hash_key(key), t.cap - 1), 0))

\* shasht_set that refuses a key only when every slot is taken
shasht_set_full(t, key, value, a, h) ==
  IF value = NULL
  THEN [status |-> "abort", ret |-> NULL, table |-> t, allocator |-> a, heap |-> h]
  ELSE IF t.len >= t.cap
  THEN [status |-> "exit", ret |-> NULL, table |-> t, allocator |-> a, heap |-> h]
  ELSE set_slot(t, key, value, a, h,
                set_probe(t, h, key, BitAnd(hash_key(key), t.cap - 1), 0))

\* shasht_set(table, key, value, allocator)
shasht_set(t, key, value, a, h) ==
  IF value = NULL
  THEN [status |-> "abort", ret |-> NULL, table |-> t, allocator |-> a, heap |-> h]
  ELSE IF t.len >= t.cap \div 2
  THEN [status |-> "exit", ret |-> NULL, table |-> t, allocator |-> a, heap |-> h]
  ELSE set_slot(t, key, value, a, h,
                set_probe(t, h, key, BitAnd(hash_key(key), t.cap - 1), 0))

\* The probe loop of shasht_get: the set of results the call can have.  Each
\* visited slot is compared through table->entries->key, the key of slot 0;
\* when slot 0 is empty that is strcmp on a null pointer, whose behaviour is
\* undefined: the call may fault, or the comparison may come out either way.
\* visited counts the slots the loop has looked at.
RECURSIVE get_probe(_, _, _, _, _)
get_probe(t, h, key, index, visited) ==
  IF t.entries[index].key = NULL
  THEN {[status |-> "ok", ret |-> NULL, visited |-> visited + 1]}
  ELSE IF t.entries[0].key = NULL
  THEN {[status |-> "fault", ret |-> NULL, visited |-> visited + 1],
        [status |-> "ok", ret |-> t.entries[index].val, visited |-> visited + 1]}
       \cup get_probe(t, h, key, NextIndex(t, index), visited + 1)
  ELSE IF key = h[t.entries[0].key]
  THEN {[status |-> "ok", ret |-> t.entries[index].val, visited |-> visited + 1]}
  ELSE get_probe(t, h, key, NextIndex(t, index), visited + 1)

\* shasht_get(table, key)
shasht_get(t, h, key) == get_probe(t, h, key, BitAnd(hash_key(key), t.cap - 1), 0)

shasht_len(t) == t.len

-----------------------------------------------------------------------------
(* INI parser *)

\* ASCII codes of the characters the scanner tests for
CH_NUL == 0
CH_TAB == 9
CH_LF == 10
CH_CR == 13
CH_SPACE == 32
CH_0 == 48
CH_9 == 57
CH_SEMI == 59
CH_EQ == 61
CH_A == 65
CH_Z == 90
CH_LBRACK == 91
CH_RBRACK == 93
CH_UNDERSCORE == 95
CH_a == 97
CH_z == 122

\* input[i] of the NUL-terminated buffer read_file hands over (main.c:379-392)
CharAt(input, i) == IF i < Len(input) THEN input[i + 1] ELSE CH_NUL

\* new_parser: reads input[0] whatever input_len is; section_name starts NULL
new_parser(input, input_len) ==
  [input |-> input, input_len |-> input_len, position |-> 0, read_position |-> 1,
   ch |-> CharAt(input, 0), section_name |-> NULL,
   hi |-> 0]   \* hi: the highest index of input read so far

is_digit(ch) == CH_0 <= ch /\ ch <= CH_9

is_valid_char(ch) ==
  \/ (CH_a <= ch /\ ch <= CH_z)
  \/ (CH_A <= ch /\ ch <= CH_Z)
  \/ ch = CH_UNDERSCORE
  \/ is_digit(ch)

read_char(p) ==
  LET eof == p.read_position >= p.input_len
  IN  [p EXCEPT !.ch = IF eof THEN CH_0 ELSE CharAt(p.input, p.read_position),
                !.position = p.read_position,
                !.read_position = p.read_position + 1,
                !.hi = IF eof THEN p.hi ELSE Max(p.hi, p.read_position)]

\* The machine m = [parser, allocator, table, heap, status, key, ret] is the
\* state the parsing functions work on; status is "ok" while the process runs,
\* key and ret hold a function's local and its result.

\* a statement on the parser, not reached once the process has ended
OnParser(m, p) == IF m.status # "ok" THEN m ELSE [m EXCEPT !.parser = p]

do_read_char(m) == OnParser(m, read_char(m.parser))

\* assert(cond): abort() when it fails
assert(m, cond) ==
  IF m.status = "ok" /\ ~cond THEN [m EXCEPT !.status = "abort"] ELSE m

assert_valid_char(m) == assert(m, is_valid_char(m.parser.ch))
assert_ch(m, c) == assert(m, m.parser.ch = c)

\* The loop of read_literal.  Once the scan is past the end of the input
\* read_char can only deliver '0' again, which is_valid_char accepts: the
\* loop then never exits (hang) for as long as read_position stays an int.
RECURSIVE literal_loop(_)
literal_loop(p) ==
  IF ~is_valid_char(p.ch) THEN [parser |-> p, hang |-> FALSE]
  ELSE IF p.position >= p.input_len THEN [parser |-> p, hang |-> TRUE]
  ELSE literal_loop(read_char(p))

\* main.c:276-281: the result of allocator_alloc is used unchecked, so a NULL
\* is written through by strncpy (fault)
literal_copy(m, pos, substr_len, r) ==
  IF r.ptr = NULL THEN [m EXCEPT !.status = "fault", !.ret = NULL]
  ELSE [m EXCEPT !.allocator = r.allocator,
                 !.heap = Store(m.heap, r.ptr,
                                SubSeq(m.parser.input, pos + 1, pos + substr_len)),
                 !.ret = r.ptr]

literal_from(m, pos) ==
  literal_copy(m, pos, m.parser.position - pos,
               allocator_alloc(m.allocator, m.parser.position - pos + 1))

literal_scan(m, pos, e) ==
  IF e.hang THEN [m EXCEPT !.parser = e.parser, !.status = "hang"]
  ELSE literal_from([m EXCEPT !.parser = e.parser], pos)

\* read_literal: m.ret is the literal
read_literal(m) ==
  IF m.status # "ok" THEN m
  ELSE literal_scan(m, m.parser.position, literal_loop(m.parser))

RECURSIVE skip_to_next_line(_)
skip_to_next_line(m) ==
  IF m.status # "ok" \/ m.parser.ch = CH_LF THEN m
  ELSE IF m.parser.ch = CH_0 THEN [m EXCEPT !.status = "exit"]
  ELSE skip_to_next_line([m EXCEPT !.parser = read_char(m.parser)])

RECURSIVE skip_whitespace(_)
skip_whitespace(p) ==
  IF p.ch = CH_SPACE \/ p.ch = CH_TAB \/ p.ch = CH_CR \/ p.ch = CH_LF
  THEN skip_whitespace(read_char(p))
  ELSE p

do_skip_whitespace(m) == OnParser(m, skip_whitespace(m.parser))

\* the literal of a header dropped instead of kept as the section name
drop_section_name(m) == m

\* parser->section_name = read_literal(...)
set_section_name(m) ==
  IF m.status # "ok" THEN m ELSE [m EXCEPT !.parser.section_name = m.ret]

parse_section_name(m) ==
  do_read_char(
    assert_ch(
      set_section_name(read_literal(assert_valid_char(do_read_char(m)))),
      CH_RBRACK))

\* const char *key = read_literal(...)
set_key(m) == IF m.status # "ok" THEN m ELSE [m EXCEPT !.key = m.ret]

set_result(m, s) ==
  [m EXCEPT !.status = s.status, !.table = s.table,
            !.allocator = s.allocator, !.heap = s.heap]

\* shasht_set(table, key, (void *)val, allocator)
set_pair(m) ==
  IF m.status # "ok" THEN m
  ELSE set_result(m, shasht_set(m.table, m.heap[m.key], m.ret, m.allocator, m.heap))

parse_key_value(m) ==
  set_pair(
    read_literal(
      do_skip_whitespace(
        do_read_char(
          assert_ch(do_skip_whitespace(set_key(read_literal(m))), CH_EQ)))))

\* main.c:347-348
parse_next_end(m) ==
  IF m.status # "ok" THEN m
  ELSE [m EXCEPT !.parser = read_char(m.parser), !.ret = 1]

\* main.c:327-345
parse_next_switch(m) ==
  IF m.parser.ch = CH_LBRACK THEN parse_next_end(parse_section_name(m))
  ELSE IF m.parser.ch = CH_SEMI THEN parse_next_end(skip_to_next_line(m))
  ELSE IF m.parser.ch = CH_0 THEN [m EXCEPT !.ret = 0]
  ELSE IF is_valid_char(m.parser.ch) THEN parse_next_end(parse_key_value(m))
  ELSE [m EXCEPT !.status = "exit"]           \* Illegal token

\* parse_next: ret is its return value
parse_next(m) == parse_next_switch(do_skip_whitespace(m))

-----------------------------------------------------------------------------
(* Bounds and input domains *)

MaxAllocs == 4      \* allocator_alloc calls in one run of the arena
MaxFills == 33      \* keys of the FillKey series offered to one table
MaxLines == 4       \* fragments concatenated into one input
MaxPadLine == 100   \* characters of one comment line of a long input

\* requested sizes; -8 is the size_t value 2^64 - 8
AllocSizes == {0, 1, 13, 1024, 2048, -8}

\* bytes of the arena in use before the table is built: none; all but 16 of
\* what the table leaves; too many for the table to fit
PreAllocs == {0, 984, 1008}

Ascii ==
  [c \in {"[", "]", ";", "=", "n", "s", "t", "r", "0", "1", "a", "b", "c", "e",
          "h", "k", "v", "w", "7", "?", "_"} |->
     CASE c = "[" -> CH_LBRACK [] c = "]" -> CH_RBRACK [] c = ";" -> CH_SEMI
       [] c = "=" -> CH_EQ     [] c = "n" -> CH_LF     [] c = "s" -> CH_SPACE
       [] c = "t" -> CH_TAB    [] c = "r" -> CH_CR     [] c = "0" -> CH_0
       [] c = "1" -> CH_0 + 1  [] c = "7" -> CH_0 + 7  [] c = "_" -> CH_UNDERSCORE
       [] c = "a" -> CH_a      [] c = "b" -> CH_a + 1  [] c = "c" -> CH_a + 2
       [] c = "e" -> CH_a + 4  [] c = "h" -> CH_a + 7  [] c = "k" -> CH_a + 10
       [] c = "v" -> CH_a + 21 [] c = "w" -> CH_a + 22 [] c = "?" -> CH_SEMI + 4]

\* the C string spelled by a sequence of character names ("n" is newline,
\* "s" space, "t" tab, "r" carriage return)
Str(names) == [i \in DOMAIN names |-> Ascii[names[i]]]

\* keys and values offered to the table directly
KeyE  == Str(<<"e">>)          \* home slot 0
KeyCW == Str(<<"c", "w">>)     \* home slot 63
KeyC7 == Str(<<"c", "7">>)     \* home slot 63 as well
TableKeys == {KeyE, KeyCW, KeyC7}
Values == {9001, 9002}
FillValue == CHOOSE v \in Values : \A w \in Values : v <= w
FillKey(i) == <<CH_A + (i \div 10), CH_0 + (i % 10)>>

\* literals of the parsed inputs
SectionNames == {Str(<<"a">>), Str(<<"b">>)}
KeyNames == {Str(<<"k">>), Str(<<"0">>)}
ValueNames == {Str(<<"v">>), Str(<<"w">>)}
CommentTexts == {Str(<<"c", "=", "[">>), Str(<<"0">>)}

SectionLine(S) == <<CH_LBRACK>> \o S \o <<CH_RBRACK, CH_LF>>
PairLine(K, V) == K \o <<CH_EQ>> \o V \o <<CH_LF>>
CommentLine(T) == <<CH_SEMI>> \o T \o <<CH_LF>>

\* well-formed lines
Lines ==
  {SectionLine(S) : S \in SectionNames}
  \cup {PairLine(Str(<<"k">>), V) : V \in ValueNames}
  \cup {PairLine(Str(<<"0">>), Str(<<"v">>))}
  \cup {CommentLine(T) : T \in CommentTexts}
  \cup {Str(<<"s", "k", "s", "=", "t", "v", "r", "n">>)}

\* ways for an input to end badly
Tails ==
  {Str(<<"[", "a", "n">>),            \* header without its ']'
   Str(<<"[", "a">>),                 \* header cut off by the end of input
   Str(<<"k", "=", "v">>),            \* pair cut off by the end of input
   Str(<<";", "c">>),                 \* comment cut off by the end of input
   Str(<<"?">>)}                      \* a character of no class

RECURSIVE Bodies(_)
Bodies(n) ==
  IF n = 0 THEN {<<>>}
  ELSE Bodies(n - 1) \cup {b \o l : b \in Bodies(n - 1), l \in Lines}

\* n >= 2 characters of comment lines, each shorter than 2 * MaxPadLine
RECURSIVE Padding(_)
Padding(n) ==
  IF n < 2 * MaxPadLine THEN CommentLine([i \in 1 .. n - 2 |-> CH_a])
  ELSE CommentLine([i \in 1 .. MaxPadLine - 2 |-> CH_a]) \o Padding(n - MaxPadLine)

\* A file so long that, once its buffer and the table are allocated, only
\* left bytes of the arena remain for the literals of body: comment lines,
\* then body.
Padded(body, left) ==
  Padding((INITIAL_ALLOC_SIZE - MAX_TABLE_SIZE * SIZEOF_HTEntry
             - SIZEOF_SHashTable - left - 1) - Len(body))
    \o body

ArenaLefts == {0, 8, 16, 24}

LongInputs ==
  {Padded(body, left) :
     body \in {PairLine(Str(<<"k">>), Str(<<"v">>)),
               SectionLine(Str(<<"a">>)) \o PairLine(Str(<<"k">>), Str(<<"v">>))},
     left \in ArenaLefts}

Inputs ==
  Bodies(MaxLines) \cup {b \o t : b \in Bodies(MaxLines - 1), t \in Tails}
    \cup LongInputs

-----------------------------------------------------------------------------
(* Values of the variables a specification does not use *)

NoCall == [seq |-> 0, op |-> "none", key |-> <<>>, val |-> NULL, ret |-> NULL]
NoAlloc == [n |-> 0, op |-> "init", size |-> 0, ptr |-> NULL]
NoTable == [entries |-> [i \in 0 .. MAX_TABLE_SIZE - 1 |-> EmptyEntry],
            len |-> 0, cap |-> MAX_TABLE_SIZE]
NoParser == new_parser(<<>>, 0)

-----------------------------------------------------------------------------
(* SpecArena: the allocator on its own, driven by a client *)

ArenaInit ==
  /\ allocator = allocator_init
  /\ mem \in {{}, 0 .. INITIAL_ALLOC_SIZE - 1}   \* malloc does not initialise
  /\ regions = <<>>
  /\ aret = NoAlloc
  /\ status = "ok"
  /\ table = NoTable /\ heap = <<>> /\ parser = NoParser
  /\ got = NoCall /\ shadow = <<>> /\ fills = 0

\* allocator_alloc(&allocator, size).  When the memset runs past the buffer the
\* behaviour is undefined: the call faults inside memset, or returns.
AllocatorAlloc(size) ==
  /\ status = "ok"
  /\ aret.n < MaxAllocs
  /\ LET r == allocator_alloc(allocator, size)
     IN  \E outcome \in (IF r.oob THEN {"fault", "returns"} ELSE {"returns"}) :
           /\ mem' = mem \ r.zero
           /\ IF outcome = "fault"
              THEN /\ status' = "fault"
                   /\ aret' = [n |-> aret.n + 1, op |-> "fault", size |-> size, ptr |-> NULL]
                   /\ UNCHANGED <<allocator, regions>>
              ELSE /\ allocator' = r.allocator
                   /\ aret' = [n |-> aret.n + 1, op |-> "alloc", size |-> size, ptr |-> r.ptr]
                   /\ regions' = IF r.ptr = NULL THEN regions
                                 ELSE Append(regions, [ptr |-> r.ptr, size |-> size])
                   /\ UNCHANGED status
  /\ UNCHANGED <<table, heap, parser, got, shadow, fills>>

AllocatorReset ==
  /\ status = "ok"
  /\ allocator' = allocator_reset(allocator)
  /\ regions' = <<>>
  /\ aret' = [aret EXCEPT !.op = "reset", !.size = 0, !.ptr = NULL]
  /\ UNCHANGED <<mem, status, table, heap, parser, got, shadow, fills>>

\* the client stores non-zero data in every region it holds (as strcpy does
\* for str_dup)
ClientFill ==
  /\ status = "ok"
  /\ regions # <<>>
  /\ mem' = mem \cup UNION {Bytes(regions[i].ptr, regions[i].size, allocator.cap) :
                             i \in DOMAIN regions}
  /\ UNCHANGED <<allocator, regions, aret, status, table, heap, parser, got, shadow, fills>>

ArenaNext ==
  \/ \E size \in AllocSizes : AllocatorAlloc(size)
  \/ AllocatorReset
  \/ ClientFill

SpecArena == ArenaInit /\ [][ArenaNext]_vars

-----------------------------------------------------------------------------
(* SpecTable: the hash table on its own, driven by a client *)

Flip(b) == 1 - b

Built(i) == allocator = i.allocator /\ table = i.table /\ status = i.status

TableInit ==
  /\ \E pre \in PreAllocs :
       Built(shasht_init(allocator_alloc(allocator_init, pre).allocator))
  /\ heap = <<>> /\ got = NoCall /\ shadow = <<>> /\ fills = 0
  /\ mem = {} /\ regions = <<>> /\ aret = NoAlloc /\ parser = NoParser

SetReturns(key, value, s) ==
  /\ table' = s.table
  /\ allocator' = s.allocator
  /\ heap' = s.heap
  /\ status' = s.status
  /\ got' = [seq |-> Flip(got.seq), op |-> "set", key |-> key, val |-> value,
             ret |-> s.ret]
  /\ shadow' = IF s.status = "ok" THEN Store(shadow, key, value) ELSE shadow

Set(key, value) ==
  SetReturns(key, value, shasht_set(table, key, value, allocator, heap))

ShashtSet(key, value) ==
  /\ status = "ok"
  /\ Set(key, value)
  /\ UNCHANGED <<fills, mem, regions, aret, parser>>

\* the next key of a series of distinct keys, which the client inserts before
\* it sets any key of TableKeys
ShashtSetFill ==
  /\ status = "ok"
  /\ fills < MaxFills
  /\ DOMAIN shadow \cap TableKeys = {}
  /\ Set(FillKey(fills + 1), FillValue)
  /\ fills' = fills + 1
  /\ UNCHANGED <<mem, regions, aret, parser>>

Get(key) ==
  \E o \in shasht_get(table, heap, key) :
    /\ got' = [seq |-> Flip(got.seq), op |-> "get", key |-> key, val |-> NULL,
               ret |-> o.ret]
    /\ status' = IF o.status = "ok" THEN status ELSE o.status

ShashtGet(key) ==
  /\ status = "ok"
  /\ Get(key)
  /\ UNCHANGED <<allocator, table, heap, shadow, fills, mem, regions, aret, parser>>

TableNext ==
  \/ \E key \in TableKeys, value \in Values : ShashtSet(key, value)
  \/ ShashtSetFill
  \/ \E key \in TableKeys \cup {FillKey(1)} : ShashtGet(key)

SpecTable == TableInit /\ [][TableNext]_vars

-----------------------------------------------------------------------------
(* Spec: main's parse of one input, then lookups in the table it built *)

Machine == [parser |-> parser, allocator |-> allocator, table |-> table,
            heap |-> heap, status |-> status, key |-> NULL, ret |-> NULL]

\* main.c:406-412 up to the first parse_next: the file buffer is allocated,
\* the parser is made, parse_ini builds the table.  (The empty input is what
\* new_parser and parse_ini get from a caller with an empty string; main's
\* read_file gives up on an empty file.)
Init ==
  /\ \E input \in Inputs :
       /\ parser = new_parser(input, Len(input))
       /\ Built(shasht_init(allocator_alloc(allocator_init, Len(input) + 1).allocator))
  /\ heap = <<>> /\ got = NoCall /\ shadow = <<>> /\ fills = 0
  /\ mem = {} /\ regions = <<>> /\ aret = NoAlloc

ParseNextReturns(m) ==
  /\ parser' = m.parser
  /\ allocator' = m.allocator
  /\ table' = m.table
  /\ heap' = m.heap
  /\ status' = IF m.status # "ok" THEN m.status
               ELSE IF m.ret = 0 THEN "done" ELSE "ok"

\* one iteration of the loop of parse_ini
ParseNext ==
  /\ status = "ok"
  /\ ParseNextReturns(parse_next(Machine))
  /\ UNCHANGED <<got, shadow, fills, mem, regions, aret>>

\* shasht_get on the table parse_ini returned
Lookup(key) ==
  /\ status = "done"
  /\ Get(key)
  /\ UNCHANGED <<allocator, table, heap, parser, shadow, fills, mem, regions, aret>>

Next ==
  \/ ParseNext
  \/ \E key \in KeyNames : Lookup(key)

Spec == Init /\ [][Next]_vars

-----------------------------------------------------------------------------
(* Properties *)

\* the values the table associates with the string key
ValuesOf(t, h, key) ==
  {t.entries[i].val : i \in {j \in DOMAIN t.entries :
                                /\ t.entries[j].key # NULL
                                /\ h[t.entries[j].key] = key}}

\* the strings the table associates with the string key (values that are
\* literals in the arena)
StringsOf(t, h, key) == {h[v] : v \in ValuesOf(t, h, key) \cap DOMAIN h}

Fatal == {"exit", "abort", "fault", "hang"}

\* a call of the table was made in this step
Called(op) == got'.seq # got.seq /\ got'.op = op

(* C1: for every input "[S]\nK=V\n" with non-empty literals S, K, V the parse
   ends successfully and a shasht_get of K then returns a string equal to V.
   Stated for the keys that do not begin with the digit 0, which C11 is
   about. *)
C1_ParseThenGet ==
  \A S \in SectionNames, K \in KeyNames, V \in ValueNames :
    (parser.input = SectionLine(S) \o PairLine(K, V) /\ K[1] # CH_0)
      => /\ status \notin Fatal
         /\ (got.op = "get" /\ got.key = K)
              => (got.ret \in DOMAIN heap /\ heap[got.ret] = V)

(* C2: when the key K appears under two sections S1, S2 with different values
   V1, V2, both associations survive the parse (the second pair does not
   overwrite the first).  Stated for the keys that do not begin with the
   digit 0. *)
C2_BothSectionsKept ==
  \A S1, S2 \in SectionNames, K \in KeyNames, V1, V2 \in ValueNames :
    ( /\ S1 # S2 /\ V1 # V2 /\ K[1] # CH_0
      /\ parser.input = SectionLine(S1) \o PairLine(K, V1)
                          \o SectionLine(S2) \o PairLine(K, V2)
      /\ status = "done" )
      => {V1, V2} \subseteq StringsOf(table, heap, K)

(* C3: after any sequence of successful shasht_set calls, shasht_get(k) of a
   key that has been set returns the value of the most recent shasht_set of
   k. *)
C3_GetReturnsLatest ==
  (got.op = "get" /\ got.key \in DOMAIN shadow)
    => (status = "ok" /\ got.ret = shadow[got.key])

(* C4: shasht_get(k) of a key that was never set returns NULL without
   faulting, whatever its probe sequence passes through and also when slot 0
   is empty. *)
C4_AbsentNotFound ==
  (got.op = "get" /\ got.key \notin DOMAIN shadow)
    => (status \notin Fatal /\ got.ret = NULL)

(* C5: shasht_set(k, v2) of a key that is already stored succeeds, makes k's
   slot hold v2 and leaves len unchanged, at every length the table can
   reach. *)
C5_OverwriteKeepsLen ==
  [][ (status = "ok" /\ Called("set") /\ got'.key \in DOMAIN shadow)
        => /\ status' = "ok"
           /\ ValuesOf(table', heap', got'.key) = {got'.val}
           /\ table'.len = table.len ]_vars

\* the arena has room for the copy of key that an insertion makes
HasRoom(a, key) == AlignUp(a.offset) + strlen(key) + 1 <= a.cap

\* this step is a shasht_set of a key that is not in the table
Inserting == status = "ok" /\ Called("set") /\ got'.key \notin DOMAIN shadow

(* C6 as claimed: from an empty table of capacity C, the first C/2 - 1
   insertions of distinct keys succeed and the C/2-th fails; the capacity
   never changes.  (Stated for insertions whose key copy fits the arena.) *)
C6_FailsAtHalf ==
  [][ /\ table'.cap = table.cap
      /\ (Inserting /\ HasRoom(allocator, got'.key))
           => IF Cardinality(DOMAIN shadow) < table.cap \div 2 - 1
              THEN status' = "ok" /\ got'.key \in DOMAIN shadow'
              ELSE status' = "exit" ]_vars

(* C6 amended: from an empty table of capacity C, the first C/2 insertions of
   distinct keys succeed (given room in the arena for the key copy), the
   (C/2 + 1)-th insertion attempt fails fatally and leaves the table as it
   was; the capacity never changes. *)
C6_FailsPastHalf ==
  [][ /\ table'.cap = table.cap
      /\ (Inserting /\ HasRoom(allocator, got'.key))
           => IF Cardinality(DOMAIN shadow) < table.cap \div 2
              THEN /\ status' = "ok"
                   /\ got'.key \in DOMAIN shadow'
                   /\ table'.len = Cardinality(DOMAIN shadow')
              ELSE status' = "exit" /\ table' = table ]_vars

\* C/2 distinct keys are in the table and the insertion of one more has failed
C6_Witness ==
  /\ status = "exit"
  /\ got.op = "set"
  /\ got.key \notin DOMAIN shadow
  /\ Cardinality(DOMAIN shadow) = MAX_TABLE_SIZE \div 2
  /\ table.len = MAX_TABLE_SIZE \div 2
  /\ HasRoom(allocator, got.key)

(* C7: after any sequence of allocator_init, allocator_alloc (any size,
   succeeding or failing) and allocator_reset, 0 <= offset <= cap, and
   between two resets offset never decreases. *)
C7_OffsetBoundedMonotonic ==
  /\ [](0 <= allocator.offset /\ allocator.offset <= allocator.cap)
  /\ [][aret'.op # "reset" => allocator'.offset >= allocator.offset]_vars

\* align_up(offset, 8) + size exceeds cap, as numbers
Exceeds(a, size) == size < 0 \/ AlignUp(a.offset) + size > a.cap

\* the bytes of the regions returned since the last reset
RegionBytes ==
  UNION {Bytes(regions[i].ptr, regions[i].size, allocator.cap) : i \in DOMAIN regions}

(* C8: an allocator_alloc(size) for which align_up(offset, 8) + size exceeds
   cap returns NULL and leaves the arena unchanged: offset as before, and no
   byte of a previously returned region modified. *)
C8_FailedAllocChangesNothing ==
  [][ (aret'.n = aret.n + 1 /\ Exceeds(allocator, aret'.size))
        => /\ aret'.op = "alloc"
           /\ aret'.ptr = NULL
           /\ allocator' = allocator
           /\ mem' \cap RegionBytes = mem \cap RegionBytes ]_vars

\* the index of the first newline at or after index i of input (Len(input)
\* when there is none)
RECURSIVE NewlineFrom(_, _)
NewlineFrom(input, i) ==
  IF i >= Len(input) \/ input[i + 1] = CH_LF THEN i
  ELSE NewlineFrom(input, i + 1)

\* the next construct parse_next will see is a ';' line that ends with a newline
AtCommentLine ==
  /\ status = "ok"
  /\ skip_whitespace(parser).position < parser.input_len
  /\ skip_whitespace(parser).ch = CH_SEMI
  /\ NewlineFrom(parser.input, skip_whitespace(parser).position) < parser.input_len

(* C9: scanning a line that begins with ';' and ends with a newline adds no
   entry to the table, leaves section_name unchanged and lets the scan
   continue with the line after it, whatever the comment text contains. *)
C9_CommentSkipped ==
  [][ AtCommentLine
        => /\ status' = "ok"
           /\ table' = table
           /\ parser'.section_name = parser.section_name
           /\ parser'.position =
                NewlineFrom(parser.input, skip_whitespace(parser).position) + 1 ]_vars

\* the index of the first character at or after index i of input that is
\* not a literal character (Len(input) when there is none)
RECURSIVE LiteralEnd(_, _)
LiteralEnd(input, i) ==
  IF i >= Len(input) \/ ~is_valid_char(input[i + 1]) THEN i
  ELSE LiteralEnd(input, i + 1)

\* the next construct parse_next will see is a '[' whose name is not followed
\* by ']'
AtOpenHeader ==
  /\ status = "ok"
  /\ skip_whitespace(parser).position < parser.input_len
  /\ skip_whitespace(parser).ch = CH_LBRACK
  /\ CharAt(parser.input,
            LiteralEnd(parser.input, skip_whitespace(parser).position + 1)) # CH_RBRACK

(* C10: parsing an input whose section header is missing its ']' ends in a
   reported error: it does not complete successfully with the section or
   entries recorded, and it never reads an input index at or beyond
   input_len. *)
C10_OpenHeaderFails ==
  [][ AtOpenHeader
        => /\ status' \in {"exit", "abort"}
           /\ table' = table
           /\ parser'.hi < parser.input_len ]_vars

(* C11: the scanner reports end-of-input (parse_next returning 0, or the
   unterminated-comment failure of skip_to_next_line) only when the scan
   position has reached input_len; a digit '0' inside the input is never
   taken for the end of input. *)
C11_EndOnlyAtEnd ==
  [][ /\ (status = "ok" /\ status' = "done")
           => parser'.position >= parser.input_len
      /\ (status = "ok" /\ status' = "exit" /\ skip_whitespace(parser).ch = CH_SEMI)
           => parser'.position >= parser.input_len ]_vars

(* C12: for every finite input parse_ini stops, successfully or with a fatal
   error: no input, one that ends in the middle of a literal or of a comment
   included, makes the scan run forever or read beyond the buffer (the
   input_len characters and their NUL). *)
C12_ParseStops ==
  /\ status # "hang"
  /\ parser.hi <= parser.input_len

(* C13: parsing an input of length 0 reads no character of the input buffer
   (input[0] is never accessed) and stops successfully with an empty table. *)
C13_EmptyInput ==
  parser.input_len = 0
    => /\ parser.hi < parser.input_len
       /\ status \notin Fatal
       /\ status = "done" => table.len = 0

(* C14: between two consecutive resets every region returned by a successful
   allocator_alloc starts at a multiple of 8, lies entirely inside [0, cap)
   and is disjoint from every other region returned since the last reset. *)
C14_RegionsAlignedInsideDisjoint ==
  \A i \in DOMAIN regions :
    /\ regions[i].ptr % 8 = 0
    /\ regions[i].ptr >= 0
    /\ regions[i].size >= 0
    /\ regions[i].ptr + regions[i].size <= allocator.cap
    /\ \A j \in DOMAIN regions :
         j # i => Bytes(regions[i].ptr, regions[i].size, allocator.cap)
                    \cap Bytes(regions[j].ptr, regions[j].size, allocator.cap) = {}

\* allocating the sizes of rs[i..] in order, starting from arena a, returns
\* the pointers of rs[i..] and leaves the offset at last
RECURSIVE Replay(_, _, _, _)
Replay(a, rs, i, last) ==
  IF i > Len(rs) THEN a.offset = last
  ELSE /\ allocator_alloc(a, rs[i].size).ptr = rs[i].ptr
       /\ Replay(allocator_alloc(a, rs[i].size).allocator, rs, i + 1, last)

\* this step is an allocator_alloc that returned a region
Allocated == aret'.n = aret.n + 1 /\ aret'.op = "alloc" /\ aret'.ptr # NULL

(* C15: every region returned by a successful allocator_alloc is all-zero when
   it is returned, also when the arena held non-zero data before a reset;
   the first region returned after a reset (or after allocator_init) starts
   at offset 0, and the regions returned since the last reset are those that
   the same sizes give on a fresh arena (the offsets do not depend on what
   happened before the reset). *)
C15_ZeroedAndReplayable ==
  /\ [][ Allocated
           => /\ mem' \cap Bytes(aret'.ptr, aret'.size, allocator.cap) = {}
              /\ regions = <<>> => aret'.ptr = 0 ]_vars
  /\ [](status = "ok" => Replay(allocator_init, regions, 1, allocator.offset))

\* a region was filled with non-zero data by the client, the arena was reset
\* and a smaller region has been returned at offset 0 over the filled bytes
C15_Witness ==
  /\ status = "ok"
  /\ aret.op = "alloc"
  /\ Len(regions) = 1
  /\ regions[1].ptr = 0
  /\ regions[1].size > 0
  /\ (INITIAL_ALLOC_SIZE - 1) \notin mem
  /\ regions[1].size \in mem
  /\ mem \cap Bytes(0, regions[1].size, allocator.cap) = {}

\* the slots that hold a key
Occupied(t) == {i \in DOMAIN t.entries : t.entries[i].key # NULL}

(* C16: after any sequence of shasht_set calls, len equals the number of
   slots whose key is non-empty, and no two occupied slots hold equal keys. *)
C16_LenCountsDistinctKeys ==
  /\ shasht_len(table) = Cardinality(Occupied(table))
  /\ \A i, j \in Occupied(table) :
       i # j => heap[table.entries[i].key] # heap[table.entries[j].key]

\* several keys are stored, two of them with the same home slot, and the last
\* successful call was a shasht_set
C16_Witness ==
  /\ status = "ok"
  /\ got.op = "set"
  /\ {KeyCW, KeyC7} \subseteq DOMAIN shadow
  /\ table.len >= 3
  /\ table.len = Cardinality(DOMAIN shadow)

\* this step is a shasht_set of a key that is already stored
Overwriting == status = "ok" /\ Called("set") /\ got'.key \in DOMAIN shadow

(* C17: a shasht_set of a key that is already stored allocates nothing (the
   arena is as before), changes nothing but the value field of that key's
   slot, and returns the key reference held by the slot, which is the one its
   insertion stored (a slot's key reference never changes); a shasht_set of a
   new key that succeeds has written exactly one slot, empty before, with a
   fresh copy of the key, and has left every other slot as it was. *)
C17_SetFrame ==
  [][ /\ \A i \in Occupied(table) : table'.entries[i].key = table.entries[i].key
      /\ Overwriting
           => /\ status' = "ok"
              /\ allocator' = allocator
              /\ heap' = heap
              /\ \E i \in Occupied(table) :
                   /\ heap[table.entries[i].key] = got'.key
                   /\ got'.ret = table.entries[i].key
                   /\ table' = [table EXCEPT !.entries[i].val = got'.val]
      /\ (Inserting /\ status' = "ok")
           => \E i \in DOMAIN table.entries \ Occupied(table) :
                /\ got'.ret \notin DOMAIN heap
                /\ got'.ret \in DOMAIN heap'
                /\ heap'[got'.ret] = got'.key
                /\ table'.entries =
                     [table.entries EXCEPT ![i] = [key |-> got'.ret, val |-> got'.val]] ]_vars

\* the home slot of key
Home(t, key) == BitAnd(hash_key(key), t.cap - 1)

(* C20: in every reachable table state len <= cap/2, so at least one slot is
   empty, and the probe loop of shasht_set and of shasht_get stops after
   visiting at most cap slots (going from index cap-1 on to 0), for any
   key: for the keys offered to the table, and from every home slot for a
   key that is stored nowhere. *)
C20_ProbesTerminate ==
  /\ table.len <= table.cap \div 2
  /\ Occupied(table) # DOMAIN table.entries
  /\ NextIndex(table, table.cap - 1) = 0
  /\ \A key \in TableKeys :
       /\ set_probe(table, heap, key, Home(table, key), 0).visited <= table.cap
       /\ \A o \in shasht_get(table, heap, key) : o.visited <= table.cap
  /\ \A index \in DOMAIN table.entries :        \* a key stored nowhere
       /\ set_probe(table, heap, <<>>, index, 0).visited <= table.cap
       /\ \A o \in get_probe(table, heap, <<>>, index, 0) : o.visited <= table.cap

\* the table is at its ceiling and the probe for a key whose home is the last
\* slot goes on from there to slot 0
C20_Witness ==
  /\ status = "ok"
  /\ table.len = table.cap \div 2
  /\ Home(table, KeyC7) = table.cap - 1
  /\ set_probe(table, heap, KeyC7, Home(table, KeyC7), 0).visited >= 2
  /\ \E o \in shasht_get(table, heap, KeyC7) : o.visited >= 2

(* C19: when the arena cannot satisfy an allocation needed during a parse
   (the copy of a key, value or section literal, or the duplicated key), the
   parse ends in the out-of-memory failure: no step of the parse writes a
   literal through a NULL allocation result, and every entry recorded has a
   key and a value that are strings in the arena. *)
C19_ExhaustionFailsCleanly ==
  [][ status = "ok"
        => /\ status' # "fault"
           /\ \A i \in Occupied(table') :
                /\ table'.entries[i].key \in DOMAIN heap'
                /\ table'.entries[i].val \in DOMAIN heap' ]_vars

\* the next construct parse_next will see is a '[' inside the input
AtHeader ==
  /\ status = "ok"
  /\ skip_whitespace(parser).position < parser.input_len
  /\ skip_whitespace(parser).ch = CH_LBRACK

\* the literal that follows that '['
HeaderName ==
  SubSeq(parser.input, skip_whitespace(parser).position + 2,
         LiteralEnd(parser.input, skip_whitespace(parser).position + 1))

(* C18: at every point of a parse section_name is the name of the most
   recently scanned '[name]' header, or the initial unnamed section (NULL) when
   no header has been scanned: it starts unnamed, a step that scans a header
   makes it that header's name and adds no entry to the table, and every
   other step of the parse (a key/value pair, a comment) leaves it as it
   was. *)
C18_SectionFollowsHeaders ==
  /\ parser.section_name = NULL
  /\ [][ (status = "ok" /\ status' \in {"ok", "done"})
           => IF AtHeader
              THEN /\ parser'.section_name \in DOMAIN heap'
                   /\ heap'[parser'.section_name] = HeaderName
                   /\ table' = table
              ELSE parser'.section_name = parser.section_name ]_vars

\* two headers and pairs under each have been scanned: the section is the
\* second header's name and the first header's name is still in the arena
C18_Witness ==
  /\ status = "done"
  /\ table.len >= 1
  /\ parser.section_name \in DOMAIN heap
  /\ heap[parser.section_name] = Str(<<"b">>)
  /\ \E q \in DOMAIN heap : q < parser.section_name /\ heap[q] = Str(<<"a">>)
  /\ \E q \in DOMAIN heap : q > parser.section_name /\ heap[q] = Str(<<"k">>)

====
